---- MODULE Spec2Model ----
(***************************************************************************)
(* Career Catalyst: the institution's Jobs page (match list, sort order,   *)
(* top-N, CSV export), the individual's analysis-report upload (dashboard  *)
(* form and backend controller) and the analysis narrative parser.         *)
(*                                                                         *)
(* Scores are held in tenths of a point (505 is 50.5) so that Math.round   *)
(* is a real conversion.  Strings that the code converts (form fields) are *)
(* sequences of one-character strings.                                     *)
(***************************************************************************)
EXTENDS Integers, Sequences, FiniteSets, TLC

\* ------------------------------------------------------------------ bounds
MaxPool == 2        \* students a match response can hold
MaxInflight == 1    \* fetchMatches requests awaiting their response
MaxUploads == 2     \* files the backend uploads to storage in one run
MaxLines == 3       \* lines of an analysis narrative
MaxSearch == 2      \* characters of the search text of GET /students
MaxRegistrations == 2   \* requests to /register handled at the same time
MaxRequests == 2    \* create and delete requests awaiting their response
MaxCreated == 2     \* jobs the server creates
MaxOverlap == 2     \* fetchMatches requests that overlap

\* --------------------------------------------------------------- constants
DefaultTopN == 10   \* useState<number>(10)
Null == "null"

VARIABLES
    \* Jobs.tsx state hooks
    showMatches,            \* job whose matches panel is open, or Null
    matches,                \* ResumeMatch[]
    sortOrder,              \* "asc" | "desc"
    topN,
    fetchingMatchesForJob,  \* job id or Null
    \* requests of fetchMatches awaiting the server, counted by the job and the
    \* sortOrder the call closed over; the responses arrive in any order
    pending,
    \* what the last handler call put in front of the user: alert text, CSV rows
    out,
    \* backend: the Individual collection, the files Cloudinary holds, the
    \* clock behind Date.now(), the last response sent
    users,
    storage,
    clock,
    res,
    \* individualDashboard.tsx state hooks, and the report upload in flight
    loading,
    result,
    profile,
    reportReq,
    \* the full report of the dashboard: the narrative of the result, the
    \* showReport hook, the sections parseAnalysisSections made of the
    \* narrative and the titled blocks formatReport put on screen
    analysis,
    showReport,
    sections,
    report,
    \* the query and the answer of the last GET /students
    studentsRes,
    \* the requests to /register that await the database, and the last
    \* answer of /register or /login
    regs,
    authRes,
    \* the Jobs page's list: Jobs.tsx's jobs, loading, error, showNewJobModal
    \* and newJob, the step fetchJobs is at, the create and delete requests
    \* awaiting their response, and the jobs the server holds
    jobs,
    jobsLoading,
    error,
    showNewJobModal,
    newJob,
    fetchJobsStep,
    crud,
    server,
    \* the dashboard's profile modal and job search: whether an analysis
    \* awaits its response, showProfileModal, profileFile, the step
    \* handleProfileUpload is at, jobLoading and the dashboard's jobs
    analysisPending,
    showProfileModal,
    profileFile,
    profileReq,
    jobLoading,
    recommendedJobs,
    \* what the View Matches clicks have asked for so far: the job of the
    \* latest click, and whether a call of fetchMatches has failed
    requested

jobsVars == <<showMatches, matches, sortOrder, topN, fetchingMatchesForJob, pending, out>>
backendVars == <<users, storage, clock, res>>
dashVars == <<loading, result, profile, reportReq, analysisPending>>
reportVars == <<analysis, showReport, sections, report>>
directoryVars == <<studentsRes>>
accountVars == <<regs, authRes>>
crudVars == <<jobs, jobsLoading, error, showNewJobModal, newJob, fetchJobsStep, crud, server>>
sideVars == <<showProfileModal, profileFile, profileReq, jobLoading, recommendedJobs>>
outsideJobs ==
    <<backendVars, dashVars, reportVars, directoryVars, accountVars, crudVars, sideVars>>
otherThanJobs == <<outsideJobs, requested>>
otherThanBackend ==
    <<jobsVars, dashVars, reportVars, directoryVars, accountVars, crudVars, sideVars,
      requested>>
otherThanDash == <<jobsVars, directoryVars, accountVars, crudVars, sideVars, requested>>
otherThanDirectory ==
    <<jobsVars, backendVars, dashVars, reportVars, accountVars, crudVars, sideVars,
      requested>>
otherThanAccounts ==
    <<jobsVars, dashVars, reportVars, directoryVars, crudVars, sideVars, requested>>
otherThanCrud ==
    <<backendVars, dashVars, reportVars, directoryVars, accountVars, sideVars, requested>>
otherThanSide == <<jobsVars, directoryVars, accountVars, crudVars, requested>>

\* ------------------------------------------------------------ Jobs.tsx data
JobIds == {"j1", "j2"}
Students == 1..MaxPool
Orders == {"asc", "desc"}
\* Number(e.target.value) of the "Show Top" input: 0 stands for every value
\* below 1 (an emptied input gives 0)
TopNInputs == {0, 1, DefaultTopN}

\* MatchResult.match_score as the matching engine produces it: [0,100], here
\* in tenths
ScoreMatch == {0, 996}

ResumeMatch == [student_id : Students, match_score : ScoreMatch]

Range(s) == {s[i] : i \in DOMAIN s}

\* bodies the matches endpoint can answer with: a list of matches, at most one
\* per student (the (student_id, job_id) pair is a key)
MatchLists ==
    UNION {{s \in [1..n -> ResumeMatch] :
              \A i, j \in 1..n : i # j => s[i].student_id # s[j].student_id}
           : n \in 0..MaxPool}

\* a fetchMatches call in flight: its jobId and the sortOrder of its closure
Requests == [jobId : JobIds, sortOrder : Orders]

RECURSIVE Sum(_, _)
Sum(f, S) ==
    IF S = {} THEN 0
    ELSE LET x == CHOOSE y \in S : TRUE IN f[x] + Sum(f, S \ {x})

InFlight == Sum(pending, Requests)

\* a response that is not OK, a body whose data is no array, a rejected fetch
Failures == {[kind |-> k, data |-> <<>>] : k \in {"notOk", "notArray", "networkError"}}

Responses == {[kind |-> "ok", data |-> d] : d \in MatchLists} \cup Failures

\* (a, b) => order === 'desc' ? b.match_score - a.match_score
\*                            : a.match_score - b.match_score
Compare(order, a, b) ==
    IF order = "desc" THEN b.match_score - a.match_score
                      ELSE a.match_score - b.match_score

\* Array.prototype.sort is stable: x goes after every element it does not
\* have to precede
RECURSIVE InsertSorted(_, _, _)
InsertSorted(order, s, x) ==
    IF s = <<>> THEN <<x>>
    ELSE IF Compare(order, s[Len(s)], x) <= 0 THEN Append(s, x)
    ELSE Append(InsertSorted(order, SubSeq(s, 1, Len(s) - 1), x), s[Len(s)])

RECURSIVE SortSwapTies(_, _)
SortSwapTies(order, s) ==
    IF s = <<>> THEN <<>>
    ELSE LET rest == SortSwapTies(order, SubSeq(s, 1, Len(s) - 1))
             x == s[Len(s)]
             before == SelectSeq(rest, LAMBDA e : Compare(order, e, x) < 0)
             after == SelectSeq(rest, LAMBDA e : Compare(order, e, x) >= 0)
         IN  before \o <<x>> \o after

RECURSIVE SortByScore(_, _)
SortByScore(order, s) ==
    IF s = <<>> THEN <<>>
    ELSE InsertSorted(order, SortByScore(order, SubSeq(s, 1, Len(s) - 1)), s[Len(s)])

Min(a, b) == IF a < b THEN a ELSE b

\* Array.prototype.slice(0, n)
SliceTop(s, n) == SubSeq(s, 1, Min(n, Len(s)))

MathRoundPercent(t) == (t * 100 + 5) \div 10

\* Math.round of a score in tenths
MathRound(t) == (t + 5) \div 10

\* the rows of the Top Matching Students table: matches.slice(0, topN).map(...)
TableRows ==
    LET v == SliceTop(matches, topN)
    IN  [i \in DOMAIN v |-> [student_id |-> v[i].student_id,
                              score |-> MathRound(v[i].match_score)]]

\* the panel with the sort select, the top-N input and the CSV button is
\* rendered for the job whose matches are shown, unless it is being fetched
PanelOpen == showMatches # Null /\ fetchingMatchesForJob # showMatches

NoOut == [alert |-> "", csv |-> <<>>]
Said(msg) == [alert |-> msg, csv |-> <<>>]


JobsInit ==
    /\ showMatches = Null
    /\ matches = <<>>
    /\ sortOrder = "desc"
    /\ topN = DefaultTopN
    /\ fetchingMatchesForJob = Null
    /\ pending = [r \in Requests |-> 0]
    /\ out = NoOut

\* fetchMatches up to its first await: the button of the job being fetched is
\* disabled; without a token the call throws, alerts and resets the flag
\* before the page renders again
\* fetchMatches up to its await, with at most limit requests awaiting
\* their response; the button of a job is disabled while
\* fetchingMatchesForJob is that job
FetchMatchesStartWithin(limit, jobId, token) ==
    /\ fetchingMatchesForJob # jobId
    /\ IF token
       THEN /\ InFlight < limit
            /\ fetchingMatchesForJob' = jobId
            /\ pending' = [pending EXCEPT ![[jobId |-> jobId, sortOrder |-> sortOrder]] = @ + 1]
            /\ out' = NoOut
       ELSE /\ fetchingMatchesForJob' = Null
            /\ pending' = pending
            /\ out' = Said("No authentication token found")
    /\ UNCHANGED <<showMatches, matches, sortOrder, topN>>

FetchMatchesStart(jobId, token) == FetchMatchesStartWithin(MaxInflight, jobId, token)

FetchMatchesResolveClearsList(r, resp) ==
    /\ pending[r] > 0
    /\ pending' = [pending EXCEPT ![r] = @ - 1]
    /\ fetchingMatchesForJob' = Null
    /\ IF resp.kind = "ok"
       THEN /\ matches' = SortByScore(r.sortOrder, resp.data)
            /\ showMatches' = r.jobId
            /\ out' = NoOut
       ELSE /\ matches' = <<>>
            /\ showMatches' = showMatches
            /\ out' = Said("Failed to fetch matches")
    /\ UNCHANGED <<sortOrder, topN>>

\* fetchMatches from the response on: sort with the sortOrder of the render
\* that made the call, show the job; on any failure alert; finally reset
FetchMatchesResolve(r, resp) ==
    /\ pending[r] > 0
    /\ pending' = [pending EXCEPT ![r] = @ - 1]
    /\ fetchingMatchesForJob' = Null
    /\ IF resp.kind = "ok"
       THEN /\ matches' = SortByScore(r.sortOrder, resp.data)
            /\ showMatches' = r.jobId
            /\ out' = NoOut
       ELSE /\ UNCHANGED <<matches, showMatches>>
            /\ out' = Said("Failed to fetch matches")
    /\ UNCHANGED <<sortOrder, topN>>

HandleSortChange(order) ==
    /\ PanelOpen
    /\ sortOrder' = order
    /\ matches' = SortByScore(order, matches)
    /\ out' = NoOut
    /\ UNCHANGED <<showMatches, topN, fetchingMatchesForJob, pending>>

HandleTopNChangeSplice(value) ==
    /\ PanelOpen
    /\ IF value >= 1
       THEN topN' = value /\ matches' = SliceTop(matches, value)
       ELSE UNCHANGED <<topN, matches>>
    /\ out' = NoOut
    /\ UNCHANGED <<showMatches, sortOrder, fetchingMatchesForJob, pending>>

HandleTopNChange(value) ==
    /\ PanelOpen
    /\ IF value >= 1 THEN topN' = value ELSE topN' = topN
    /\ out' = NoOut
    /\ UNCHANGED <<showMatches, matches, sortOrder, fetchingMatchesForJob, pending>>

\* the rows after the header: student and Math.round(match_score)
DownloadCSV ==
    /\ PanelOpen
    /\ out' = [alert |-> "",
               csv |-> [i \in DOMAIN SliceTop(matches, topN) |->
                          [student_id |-> matches[i].student_id,
                           score |-> MathRound(matches[i].match_score)]]]
    /\ UNCHANGED <<showMatches, matches, sortOrder, topN, fetchingMatchesForJob, pending>>

\* the X button of the panel: setShowMatches(null)
CloseMatches ==
    /\ PanelOpen
    /\ showMatches' = Null
    /\ out' = NoOut
    /\ UNCHANGED <<matches, sortOrder, topN, fetchingMatchesForJob, pending>>

JobsNext ==
    \/ \E j \in JobIds, token \in BOOLEAN :
          FetchMatchesStart(j, token) /\ UNCHANGED otherThanJobs
    \/ \E r \in Requests, resp \in Responses :
          FetchMatchesResolve(r, resp) /\ UNCHANGED otherThanJobs
    \/ \E order \in Orders : HandleSortChange(order) /\ UNCHANGED otherThanJobs
    \/ \E value \in TopNInputs : HandleTopNChange(value) /\ UNCHANGED otherThanJobs
    \/ DownloadCSV /\ UNCHANGED otherThanJobs
    \/ CloseMatches /\ UNCHANGED otherThanJobs


\* ------------------------------------- Jobs.tsx: overlapping fetchMatches
NothingRequested == requested = [last |-> Null, failed |-> FALSE]

\* the matches the server holds for each job
ServerMatches ==
    [j \in JobIds |->
        IF j = "j1"
        THEN <<[student_id |-> 1, match_score |-> 996]>>
        ELSE <<[student_id |-> 2, match_score |-> 0], [student_id |-> 1, match_score |-> 0]>>]

\* what the request for the matches of a job can end in
ResponsesFor(jobId) == {[kind |-> "ok", data |-> ServerMatches[jobId]]} \cup Failures

\* a click on View Matches of a job
ViewMatches(jobId, token) ==
    /\ FetchMatchesStartWithin(MaxOverlap, jobId, token)
    /\ requested' = [last |-> jobId, failed |-> requested.failed \/ ~token]

\* the response to one of the requests arrives, in any order
MatchesArrive(r, resp) ==
    /\ FetchMatchesResolve(r, resp)
    /\ requested' = [requested EXCEPT !.failed = @ \/ resp.kind # "ok"]

OverlapNext ==
    \/ \E j \in JobIds, token \in BOOLEAN :
          ViewMatches(j, token) /\ UNCHANGED outsideJobs
    \/ \E r \in Requests : \E resp \in ResponsesFor(r.jobId) :
          MatchesArrive(r, resp) /\ UNCHANGED outsideJobs

\* ----------------------------------------------- Jobs.tsx: the jobs list
\* the _id the server gives the jobs it creates
CreatedIds == <<"k1", "k2", "k3">>

\* the years and departments of the form
Years == {1}
Departments == {"CSE"}

\* newJob as useState makes it and as a successful create resets it: the
\* selections of the form, whose two text fields no handler reads
EmptyJob == [target_years |-> {}, target_departments |-> {}]

NoJobsFound == "No jobs found. Try creating a new job."

\* the jobs the server holds and how many it has created, before the page
\* is opened
CrudInit ==
    /\ jobs = <<>>
    /\ jobsLoading = TRUE
    /\ error = Null
    /\ showNewJobModal = FALSE
    /\ newJob = EmptyJob
    /\ fetchJobsStep = "mount"
    /\ crud = <<>>
    /\ server = [jobs |-> <<"j1">>, created |-> 0]

RECURSIVE Filter(_, _)
\* jobs.filter(job => job._id !== jobId)
Filter(list, jobId) ==
    IF list = <<>> THEN <<>>
    ELSE IF list[1] = jobId THEN Filter(Tail(list), jobId)
    ELSE <<list[1]>> \o Filter(Tail(list), jobId)

Remove(seq, i) == SubSeq(seq, 1, i - 1) \o SubSeq(seq, i + 1, Len(seq))

\* useEffect on mount: fetchJobs up to its await
FetchJobsStart(token) ==
    /\ fetchJobsStep = "mount"
    /\ IF token
       THEN /\ jobsLoading' = TRUE
            /\ error' = Null
            /\ fetchJobsStep' = "pending"
       ELSE /\ jobsLoading' = FALSE
            /\ error' = "No authentication token found. Please log in."
            /\ fetchJobsStep' = "failed"
    /\ UNCHANGED <<jobs, showNewJobModal, newJob, crud, server>>
    /\ UNCHANGED jobsVars

\* fetchJobs from the response on
FetchJobsResolve(ok) ==
    /\ fetchJobsStep = "pending"
    /\ jobsLoading' = FALSE
    /\ IF ok
       THEN /\ jobs' = server.jobs
            /\ error' = (IF server.jobs = <<>> THEN NoJobsFound ELSE error)
            /\ fetchJobsStep' = "loaded"
       ELSE /\ jobs' = jobs
            /\ error' = "Failed to fetch jobs"
            /\ fetchJobsStep' = "failed"
    /\ UNCHANGED <<showNewJobModal, newJob, crud, server>>
    /\ UNCHANGED jobsVars

\* the New Job button and the Cancel button of the modal, of a page whose
\* effect has run
SetShowNewJobModal(shown) ==
    /\ fetchJobsStep # "mount"
    /\ showNewJobModal # shown
    /\ showNewJobModal' = shown
    /\ UNCHANGED <<jobs, jobsLoading, error, newJob, fetchJobsStep, crud, server>>
    /\ UNCHANGED jobsVars

HandleYearChange(year) ==
    /\ showNewJobModal
    /\ newJob' = [newJob EXCEPT !.target_years =
                     IF year \in @ THEN @ \ {year} ELSE @ \cup {year}]
    /\ UNCHANGED <<jobs, jobsLoading, error, showNewJobModal, fetchJobsStep, crud, server>>
    /\ UNCHANGED jobsVars

HandleDepartmentChange(department) ==
    /\ showNewJobModal
    /\ newJob' = [newJob EXCEPT !.target_departments =
                     IF department \in @ THEN @ \ {department} ELSE @ \cup {department}]
    /\ UNCHANGED <<jobs, jobsLoading, error, showNewJobModal, fetchJobsStep, crud, server>>
    /\ UNCHANGED jobsVars

\* a request awaiting its response, with the jobs and showMatches of the
\* render its handler was made in
Awaiting(kind, jobId) ==
    [kind |-> kind, jobId |-> jobId, jobs |-> jobs, showMatches |-> showMatches]

\* handleSubmit up to its await; without a token or a selection it alerts
\* and returns
HandleSubmit(token) ==
    /\ showNewJobModal
    /\ UNCHANGED <<jobs, jobsLoading, error, showNewJobModal, newJob, fetchJobsStep, server>>
    /\ UNCHANGED jobsVars
    /\ IF ~token \/ newJob.target_years = {} \/ newJob.target_departments = {}
       THEN crud' = crud
       ELSE /\ Len(crud) < MaxRequests
            /\ crud' = Append(crud, Awaiting("create", Null))

\* handleSubmit from the response on: the server creates the job and
\* answers with it, or answers with an error
CreateResponse(i, ok) ==
    /\ i \in DOMAIN crud
    /\ crud[i].kind = "create"
    /\ crud' = Remove(crud, i)
    /\ UNCHANGED <<jobsLoading, fetchJobsStep>>
    /\ UNCHANGED jobsVars
    /\ IF ok
       THEN /\ server.created < MaxCreated
            /\ server' = [jobs |-> Append(server.jobs, CreatedIds[server.created + 1]),
                          created |-> server.created + 1]
            /\ jobs' = Append(crud[i].jobs, CreatedIds[server.created + 1])
            /\ showNewJobModal' = FALSE
            /\ newJob' = EmptyJob
            /\ error' = Null
       ELSE UNCHANGED <<jobs, showNewJobModal, newJob, error, server>>

\* handleDelete up to its await; the rows are shown when the page is
\* neither loading nor in error, and the modal covers them
HandleDelete(jobId, confirmed, token) ==
    /\ ~jobsLoading /\ error = Null /\ ~showNewJobModal
    /\ \E k \in DOMAIN jobs : jobs[k] = jobId
    /\ UNCHANGED <<jobs, jobsLoading, error, showNewJobModal, newJob, fetchJobsStep, server>>
    /\ UNCHANGED jobsVars
    /\ IF ~confirmed \/ ~token
       THEN crud' = crud
       ELSE /\ Len(crud) < MaxRequests
            /\ crud' = Append(crud, Awaiting("delete", jobId))

\* handleDelete from the response on: the server deletes a job it holds
\* and answers ok, or answers with an error
DeleteResponse(i, ok) ==
    /\ i \in DOMAIN crud
    /\ crud[i].kind = "delete"
    /\ crud' = Remove(crud, i)
    /\ UNCHANGED <<jobsLoading, showNewJobModal, newJob, fetchJobsStep>>
    /\ UNCHANGED <<sortOrder, topN, fetchingMatchesForJob, pending, out>>
    /\ IF ok /\ \E k \in DOMAIN server.jobs : server.jobs[k] = crud[i].jobId
       THEN /\ server' = [server EXCEPT !.jobs = Filter(@, crud[i].jobId)]
            /\ jobs' = Filter(crud[i].jobs, crud[i].jobId)
            /\ IF crud[i].showMatches = crud[i].jobId
               THEN showMatches' = Null /\ matches' = <<>>
               ELSE UNCHANGED <<showMatches, matches>>
            /\ error' = (IF Len(crud[i].jobs) = 1 THEN NoJobsFound ELSE error)
       ELSE UNCHANGED <<jobs, error, server, showMatches, matches>>

CrudNext ==
    \/ \E token \in BOOLEAN : FetchJobsStart(token) /\ UNCHANGED otherThanCrud
    \/ \E ok \in BOOLEAN : FetchJobsResolve(ok) /\ UNCHANGED otherThanCrud
    \/ \E shown \in BOOLEAN : SetShowNewJobModal(shown) /\ UNCHANGED otherThanCrud
    \/ \E year \in Years : HandleYearChange(year) /\ UNCHANGED otherThanCrud
    \/ \E department \in Departments :
          HandleDepartmentChange(department) /\ UNCHANGED otherThanCrud
    \/ \E token \in BOOLEAN : HandleSubmit(token) /\ UNCHANGED otherThanCrud
    \/ \E i \in 1..MaxRequests, ok \in BOOLEAN :
          CreateResponse(i, ok) /\ UNCHANGED otherThanCrud
    \/ \E jobId \in JobIds \cup Range(CreatedIds), confirmed \in BOOLEAN, token \in BOOLEAN :
          HandleDelete(jobId, confirmed, token) /\ UNCHANGED otherThanCrud
    \/ \E i \in 1..MaxRequests, ok \in BOOLEAN :
          DeleteResponse(i, ok) /\ UNCHANGED otherThanCrud

\* ------------------------------------------- backend: individualController.js
UserIds == {"u1", "u2"}
\* the id of a token whose account is no longer in the collection
Ghost == "u9"

Undefined == "undefined"

\* an optional number (a score that may be undefined, a parse that may be
\* NaN): <<>> or <<n>>
None == <<>>
Some(n) == <<n>>

DigitChars == <<"0", "1", "2", "3", "4", "5", "6", "7", "8", "9">>

\* Number.prototype.toString of an integer
RECURSIVE Digits(_)
Digits(n) ==
    IF n < 10 THEN <<DigitChars[n + 1]>>
    ELSE Append(Digits(n \div 10), DigitChars[(n % 10) + 1])

NumberToString(n) == IF n < 0 THEN <<"-">> \o Digits(0 - n) ELSE Digits(n)

IsDigit(c) == \E d \in 1..10 : DigitChars[d] = c
DigitValue(c) == (CHOOSE d \in 1..10 : DigitChars[d] = c) - 1

RECURSIVE SkipSpace(_)
SkipSpace(s) ==
    IF s # <<>> /\ s[1] = " " THEN SkipSpace(Tail(s)) ELSE s

\* the value of the longest prefix of digits of s after acc, or acc
RECURSIVE ReadDigits(_, _)
ReadDigits(s, acc) ==
    IF s # <<>> /\ IsDigit(s[1])
    THEN ReadDigits(Tail(s), acc * 10 + DigitValue(s[1]))
    ELSE acc

\* the text undefined is read as by parseInt and by String()
UndefinedText == <<"u", "n", "d", "e", "f", "i", "n", "e", "d">>

\* parseInt(v, 10): leading blanks, a sign, then digits up to the first
\* character that is none; NaN (None) when there is no digit
ParseInt(v) ==
    LET t == SkipSpace(v)
        neg == t # <<>> /\ t[1] = "-"
        u == IF t # <<>> /\ t[1] \in {"-", "+"} THEN Tail(t) ELSE t
    IN  IF u = <<>> \/ ~IsDigit(u[1]) THEN None
        ELSE IF neg THEN Some(0 - ReadDigits(u, 0)) ELSE Some(ReadDigits(u, 0))

\* x || 0: NaN and 0 are falsy
OrZero(x) == IF x = None THEN 0 ELSE x[1]

\* a || b for strings: undefined and '' are falsy
OrElse(a, b) == IF a = Undefined \/ a = "" THEN b ELSE a

\* limits: { fileSize: 5 * 1024 * 1024 }
FileSizeLimit == 5 * 1024 * 1024

Pdf == "application/pdf"

\* req.file when the request carries no file
NoUpload == [mimetype |-> "", size |-> 0]

\* a small PDF, such as the report jsPDF makes
SmallPdf == [mimetype |-> Pdf, size |-> 1]

\* the file part of a request: none, or a file of a type and a size
Uploads ==
    {NoUpload}
    \cup {[mimetype |-> Pdf, size |-> FileSizeLimit],
          [mimetype |-> Pdf, size |-> FileSizeLimit + 1],
          [mimetype |-> "image/png", size |-> FileSizeLimit]}

\* a file Cloudinary holds, and the secure_url of it: <folder>/<name>_<Date.now()>
\* file is the upload the buffer of which is sent
FileOf(folder, id, now, file) ==
    [folder |-> folder, name |-> id, ts |-> now,
     mimetype |-> file.mimetype, size |-> file.size]

\* /\/resumes\/([^\.\/]+)(?:\.[a-zA-Z0-9]+)?/ : only a url under /resumes/
\* gives an id, resumes/<file>
NoFile == [folder |-> "", name |-> "", ts |-> 0, mimetype |-> "", size |-> 0]

GetCloudinaryPublicId(url) ==
    IF url.folder = "resumes" THEN url ELSE NoFile

\* cloudinary.uploader.destroy(publicId)
Destroy(files, publicId) == files \ {publicId}

\* the form fields a request to /upload-report/:id can carry: a score field
\* that is missing reaches parseInt as undefined
Bodies ==
    {[analysisResumeScore |-> UndefinedText, analysisAtsScore |-> <<"a">>,
      jobRole |-> "", jobCategory |-> ""],
     [analysisResumeScore |-> <<"8", "5">>, analysisAtsScore |-> <<" ", "7", "x">>,
      jobRole |-> "Data Scientist", jobCategory |-> "Data Science and Analytics"],
     [analysisResumeScore |-> <<"1", "5", "0">>, analysisAtsScore |-> <<"-", "5">>,
      jobRole |-> "Data Scientist", jobCategory |-> "Data Science and Analytics"]}

\* what Cloudinary and the database do to one request
CloudOutcomes == {"ok", "destroyFails", "uploadFails"}

Respond(op, caller, id, status) ==
    [op |-> op, caller |-> caller, id |-> id, status |-> status]

\* bcrypt.hash(password, 10) and bcrypt.compare(password, hash)
BcryptHash(password) == [bcrypt |-> password]
BcryptCompare(password, hash) == hash = BcryptHash(password)

\* the name, year and department the registered individuals gave; CSE and
\* IT stand for two departments of the schema's enum
Enrolled ==
    [id \in UserIds |->
        IF id = "u1"
        THEN [name |-> <<"A", "b">>, year |-> 1, department |-> "CSE",
              email |-> "a@x", password |-> "p"]
        ELSE [name |-> <<"b", "a">>, year |-> 2, department |-> "IT",
              email |-> "b@x", password |-> "q"]]

\* a registered individual: registerIndividual stores the resume and the
\* schema defaults the scores to 0
Registered(id) ==
    [name |-> Enrolled[id].name,
     year |-> Enrolled[id].year,
     department |-> Enrolled[id].department,
     email |-> Enrolled[id].email,
     password |-> BcryptHash(Enrolled[id].password),
     resumeFilePath |-> FileOf("resumes", id, 0, SmallPdf),
     reportFilePath |-> "legacy",
     analysisFilePath |-> NoFile,
     analysisResumeScore |-> 0,
     analysisAtsScore |-> 0,
     jobRole |-> Undefined,
     jobCategory |-> Undefined]

BackendInit ==
    /\ users = [id \in UserIds |-> Registered(id)]
    /\ storage = {FileOf("resumes", id, 0, SmallPdf) : id \in UserIds}
    /\ clock = 0
    /\ res = Respond("none", Null, Null, 0)


RefusalNoOwnerCheck(caller, id, needsFile, hasFile) ==
    IF id \notin DOMAIN users THEN 404
    ELSE IF needsFile /\ ~hasFile THEN 400
    ELSE 0

\* the part of the three handlers before the work: 403 for a caller that is
\* not the user of the path, 404, 400; 0 when the handler goes on
Refusal(caller, id, needsFile, hasFile) ==
    IF caller # id THEN 403
    ELSE IF id \notin DOMAIN users THEN 404
    ELSE IF needsFile /\ ~hasFile THEN 400
    ELSE 0

UploadPDF(caller, id, file, cloud, saveOk) ==
    /\ clock < MaxUploads
    /\ LET refusal == Refusal(caller, id, TRUE, file # NoUpload)
           old == users[id].resumeFilePath
           publicId == IF old = NoFile THEN NoFile ELSE GetCloudinaryPublicId(old)
           destroyed == IF publicId = NoFile THEN storage ELSE Destroy(storage, publicId)
           new == FileOf("resumes", id, clock + 1, file)
       IN  IF refusal # 0
           THEN /\ res' = Respond("uploadPDF", caller, id, refusal)
                /\ UNCHANGED <<users, storage, clock>>
           ELSE IF publicId # NoFile /\ cloud = "destroyFails"
           THEN /\ res' = Respond("uploadPDF", caller, id, 500)
                /\ UNCHANGED <<users, storage, clock>>
           ELSE IF cloud = "uploadFails"
           THEN /\ storage' = destroyed
                /\ res' = Respond("uploadPDF", caller, id, 500)
                /\ UNCHANGED <<users, clock>>
           ELSE /\ storage' = destroyed \cup {new}
                /\ clock' = clock + 1
                /\ IF saveOk
                   THEN /\ users' = [users EXCEPT ![id].resumeFilePath = new]
                        /\ res' = Respond("uploadPDF", caller, id, 200)
                   ELSE /\ users' = users
                        /\ res' = Respond("uploadPDF", caller, id, 500)

DeletePDF(caller, id, cloud, saveOk) ==
    LET refusal == Refusal(caller, id, FALSE, FALSE)
        old == users[id].resumeFilePath
        publicId == IF old = NoFile THEN NoFile ELSE GetCloudinaryPublicId(old)
        destroyed == IF publicId = NoFile THEN storage ELSE Destroy(storage, publicId)
    IN  /\ cloud # "uploadFails"
        /\ UNCHANGED clock
        /\ IF refusal # 0
           THEN /\ res' = Respond("deletePDF", caller, id, refusal)
                /\ UNCHANGED <<users, storage>>
           ELSE IF publicId # NoFile /\ cloud = "destroyFails"
           THEN /\ res' = Respond("deletePDF", caller, id, 500)
                /\ UNCHANGED <<users, storage>>
           ELSE /\ storage' = destroyed
                /\ IF saveOk
                   THEN /\ users' = [users EXCEPT ![id].resumeFilePath = NoFile]
                        /\ res' = Respond("deletePDF", caller, id, 200)
                   ELSE /\ users' = users
                        /\ res' = Respond("deletePDF", caller, id, 500)

UploadAnalysisReport(caller, id, file, body, cloud, saveOk) ==
    /\ clock < MaxUploads
    /\ LET refusal == Refusal(caller, id, TRUE, file # NoUpload)
           old == users[id].analysisFilePath
           publicId == IF old = NoFile THEN NoFile ELSE GetCloudinaryPublicId(old)
           \* destroy(`analysis_reports/${publicId}`)
           destroyed ==
               IF publicId = NoFile THEN storage
               ELSE Destroy(storage, [publicId EXCEPT !.folder = "analysis_reports/resumes"])
           new == FileOf("analysis_reports", id, clock + 1, file)
       IN  IF refusal # 0
           THEN /\ res' = Respond("uploadAnalysisReport", caller, id, refusal)
                /\ UNCHANGED <<users, storage, clock>>
           ELSE IF publicId # NoFile /\ cloud = "destroyFails"
           THEN /\ res' = Respond("uploadAnalysisReport", caller, id, 500)
                /\ UNCHANGED <<users, storage, clock>>
           ELSE IF cloud = "uploadFails"
           THEN /\ storage' = destroyed
                /\ res' = Respond("uploadAnalysisReport", caller, id, 500)
                /\ UNCHANGED <<users, clock>>
           ELSE /\ storage' = destroyed \cup {new}
                /\ clock' = clock + 1
                /\ IF saveOk
                   THEN /\ users' = [users EXCEPT ![id] =
                              [@ EXCEPT
                                 !.analysisFilePath = new,
                                 !.analysisResumeScore = OrZero(ParseInt(body.analysisResumeScore)),
                                 !.analysisAtsScore = OrZero(ParseInt(body.analysisAtsScore)),
                                 !.jobRole = OrElse(body.jobRole, OrElse(@, "")),
                                 !.jobCategory = OrElse(body.jobCategory, OrElse(@, "")),
                                 !.reportFilePath = Undefined]]
                        /\ res' = Respond("uploadAnalysisReport", caller, id, 200)
                   ELSE /\ users' = users
                        /\ res' = Respond("uploadAnalysisReport", caller, id, 500)

\* ---------------------------------------------- routes: individualRoutes.js
MulterErrorTypeOnly(file) ==
    file # NoUpload /\ file.mimetype # Pdf

\* upload.single: the fileFilter turns down a file that is no PDF and the
\* limit one of more than 5 MB; the request then goes to the error handler
MulterError(file) ==
    file # NoUpload /\ (file.mimetype # Pdf \/ file.size > FileSizeLimit)

\* the answer to a request multer turned down: no handler runs
MulterRefuses(caller, id) ==
    /\ res' = Respond("multer", caller, id, 500)
    /\ UNCHANGED <<users, storage, clock>>

PostUpload(caller, id, file, cloud, saveOk) ==
    IF MulterError(file) THEN MulterRefuses(caller, id)
    ELSE UploadPDF(caller, id, file, cloud, saveOk)

DeleteDelete(caller, id, cloud, saveOk) ==
    DeletePDF(caller, id, cloud, saveOk)

PostUploadReport(caller, id, file, body, cloud, saveOk) ==
    IF MulterError(file) THEN MulterRefuses(caller, id)
    ELSE UploadAnalysisReport(caller, id, file, body, cloud, saveOk)

\* ------------------------------------ GET /students: individualRoutes.js
\* req.query of GET /students: year, department and search are texts or
\* absent; the search texts are made of letters and the dot
SearchChars == {"a", "A", "b", "."}

SearchTexts == UNION {[1..n -> SearchChars] : n \in 0..MaxSearch}

StudentQueries ==
    [year : {Undefined, "all", "1", "2"},
     department : {Undefined, "all", "CSE", "IT"},
     search : SearchTexts]

\* Number(year) of a text of digits
NumberOf(text) == ReadDigits(<<text>>, 0)

\* the 'i' option: letters compare by their lower case
LowerCase(c) == IF c = "A" THEN "a" ELSE c

\* { $regex: search, $options: 'i' }: the search text is the pattern; a
\* letter stands for itself in either case, the dot for any character, and
\* the pattern can match anywhere in the name
RegexTest(pattern, text) ==
    \E i \in 0..(Len(text) - Len(pattern)) :
        \A k \in 1..Len(pattern) :
            \/ pattern[k] = "."
            \/ LowerCase(pattern[k]) = LowerCase(text[i + k])

\* Individual.find(query) for the query built from req.query
Find(q) ==
    {id \in DOMAIN users :
        /\ (q.year # Undefined /\ q.year # "all") => users[id].year = NumberOf(q.year)
        /\ (q.department # Undefined /\ q.department # "all")
              => users[id].department = q.department
        /\ q.search # <<>> => RegexTest(q.search, users[id].name)}

NoStudents ==
    [query |-> [year |-> Undefined, department |-> Undefined, search |-> <<>>],
     status |-> 0, data |-> {}]

DirectoryIdle == studentsRes = NoStudents

\* router.get('/students') for a caller authMiddleware let through
GetStudents(q) ==
    studentsRes' = [query |-> q, status |-> 200, data |-> Find(q)]

DirectoryNext ==
    \E q \in StudentQueries : GetStudents(q) /\ UNCHANGED otherThanDirectory

\* how the calls of one request to Cloudinary and to MongoDB end
Outcomes ==
    {[cloud |-> c, saveOk |-> TRUE] : c \in CloudOutcomes}
    \cup {[cloud |-> "ok", saveOk |-> FALSE]}

\* what multer and the body parser hand to uploadAnalysisReport
ReportRequests ==
    {[file |-> f, body |-> b] :
        f \in Uploads \ {[mimetype |-> Pdf, size |-> FileSizeLimit]},
        b \in {x \in Bodies : x.analysisResumeScore = UndefinedText}}
    \cup {[file |-> [mimetype |-> Pdf, size |-> FileSizeLimit], body |-> b] : b \in Bodies}

\* the outcomes that tell requests apart: those of a request that is
\* answered before it reaches Cloudinary or MongoDB are all one
OutcomesFor(refused) ==
    IF refused THEN {[cloud |-> "ok", saveOk |-> TRUE]} ELSE Outcomes

\* ------------------- /register and /login: individualController.js
RegSlots == 1..MaxRegistrations

\* the _id MongoDB gives the record of a registration
NewIds == <<"n1", "n2", "n3">>

\* req.body of /register: an email that is taken or free, and whether all
\* of name, email, password, college, year and department are there
RegisterBodies == [email : {"a@x", "c@x"}, password : {"r"}, complete : BOOLEAN]

NoReg == [stage |-> "idle", email |-> "", password |-> "", file |-> NoUpload]

NoToken == [id |-> ""]

\* the fields of the record that the user object of a 201 of /register
\* and of a 200 of /login is made of
RegisterFields == {"name", "email", "college", "year", "department", "resumeFilePath"}
LoginFields == RegisterFields \cup {"_id"}

\* a response of /register or /login: the status, the token, and the email
\* and the fields of the user object
Answer(op, status, token, email, fields) ==
    [op |-> op, status |-> status, token |-> token, email |-> email,
     fields |-> fields]

AccountsIdle ==
    /\ regs = [s \in RegSlots |-> NoReg]
    /\ authRes = Answer("none", 0, NoToken, "", {})

\* Individual.findOne({ email })
FindByEmail(email) == {id \in DOMAIN users : users[id].email = email}

\* /register up to the answer of findOne: multer, the required fields, the
\* email looked up
RegisterStart(slot, body, file) ==
    /\ regs[slot] = NoReg
    /\ \A t \in RegSlots : t < slot => regs[t] # NoReg
    /\ UNCHANGED <<users, storage, clock, res>>
    /\ IF MulterError(file)
       THEN /\ authRes' = Answer("multer", 500, NoToken, "", {})
            /\ regs' = regs
       ELSE IF ~body.complete
       THEN /\ authRes' = Answer("register", 400, NoToken, "", {})
            /\ regs' = regs
       ELSE IF FindByEmail(body.email) # {}
       THEN /\ authRes' = Answer("register", 400, NoToken, "", {})
            /\ regs' = regs
       ELSE /\ authRes' = authRes
            /\ regs' = [regs EXCEPT ![slot] =
                           [stage |-> "checked", email |-> body.email,
                            password |-> body.password, file |-> file]]

\* a record as new Individual({...}) makes it
NewIndividual(id, email, password, resume) ==
    [name |-> <<"b">>, year |-> 1, department |-> "CSE",
     email |-> email, password |-> BcryptHash(password),
     resumeFilePath |-> resume,
     reportFilePath |-> Undefined,
     analysisFilePath |-> NoFile,
     analysisResumeScore |-> 0,
     analysisAtsScore |-> 0,
     jobRole |-> Undefined,
     jobCategory |-> Undefined]

RegisterFinishNoUniqueIndex(slot, collegeOk, cloud, saveOk) ==
    LET reg == regs[slot]
        id == NewIds[slot]
        new == FileOf("resumes", id, clock + 1, reg.file)
    IN  /\ reg.stage = "checked"
        /\ clock < MaxUploads
        /\ regs' = [regs EXCEPT ![slot] = NoReg]
        /\ UNCHANGED res
        /\ IF ~collegeOk \/ reg.file = NoUpload
              \/ reg.file.mimetype # Pdf \/ reg.file.size > FileSizeLimit
           THEN /\ authRes' = Answer("register", 400, NoToken, "", {})
                /\ UNCHANGED <<users, storage, clock>>
           ELSE IF cloud = "uploadFails"
           THEN /\ authRes' = Answer("register", 500, NoToken, "", {})
                /\ UNCHANGED <<users, storage, clock>>
           ELSE /\ storage' = storage \cup {new}
                /\ clock' = clock + 1
                /\ IF saveOk
                   THEN /\ users' = [i \in DOMAIN users \cup {id} |->
                                      IF i = id
                                      THEN NewIndividual(id, reg.email, reg.password, new)
                                      ELSE users[i]]
                        /\ authRes' = Answer("register", 201, NoToken, reg.email, RegisterFields)
                   ELSE /\ users' = users
                        /\ authRes' = Answer("register", 500, NoToken, "", {})

\* /register after findOne: the college, the file, the upload of the
\* resume, the hash and the save, which the unique index on email turns
\* down when the email has been taken meanwhile
RegisterFinish(slot, collegeOk, cloud, saveOk) ==
    LET reg == regs[slot]
        id == NewIds[slot]
        new == FileOf("resumes", id, clock + 1, reg.file)
    IN  /\ reg.stage = "checked"
        /\ clock < MaxUploads
        /\ regs' = [regs EXCEPT ![slot] = NoReg]
        /\ UNCHANGED res
        /\ IF ~collegeOk \/ reg.file = NoUpload
              \/ reg.file.mimetype # Pdf \/ reg.file.size > FileSizeLimit
           THEN /\ authRes' = Answer("register", 400, NoToken, "", {})
                /\ UNCHANGED <<users, storage, clock>>
           ELSE IF cloud = "uploadFails"
           THEN /\ authRes' = Answer("register", 500, NoToken, "", {})
                /\ UNCHANGED <<users, storage, clock>>
           ELSE /\ storage' = storage \cup {new}
                /\ clock' = clock + 1
                /\ IF saveOk /\ FindByEmail(reg.email) = {}
                   THEN /\ users' = [i \in DOMAIN users \cup {id} |->
                                      IF i = id
                                      THEN NewIndividual(id, reg.email, reg.password, new)
                                      ELSE users[i]]
                        /\ authRes' = Answer("register", 201, NoToken, reg.email, RegisterFields)
                   ELSE /\ users' = users
                        /\ authRes' = Answer("register", 500, NoToken, "", {})

LoginIndividualTokenFirst(email, password, dbOk) ==
    /\ UNCHANGED <<users, storage, clock, res, regs>>
    /\ IF ~dbOk THEN authRes' = Answer("login", 500, NoToken, "", {})
       ELSE IF FindByEmail(email) = {}
       THEN authRes' = Answer("login", 400, NoToken, "", {})
       ELSE LET id == CHOOSE i \in FindByEmail(email) : TRUE
            IN  authRes' = Answer("login",
                                  IF BcryptCompare(password, users[id].password)
                                  THEN 200 ELSE 400,
                                  [id |-> id], users[id].email, LoginFields)

\* loginIndividual; a lookup that throws ends in the 500 of the catch
LoginIndividual(email, password, dbOk) ==
    /\ UNCHANGED <<users, storage, clock, res, regs>>
    /\ IF ~dbOk THEN authRes' = Answer("login", 500, NoToken, "", {})
       ELSE IF FindByEmail(email) = {}
       THEN authRes' = Answer("login", 400, NoToken, "", {})
       ELSE LET id == CHOOSE i \in FindByEmail(email) : TRUE
            IN  IF ~BcryptCompare(password, users[id].password)
                THEN authRes' = Answer("login", 400, NoToken, "", {})
                ELSE authRes' = Answer("login", 200, [id |-> id], users[id].email,
                                          LoginFields)

\* the emails and passwords a login is tried with
LoginEmails == {"a@x", "c@x", "z@x"}
LoginPasswords == {"p", "r"}

\* the requests of the first registered individual for its own files
OwnUploads ==
    \/ \E file \in Uploads : \E o \in OutcomesFor(MulterError(file)) :
          PostUpload("u1", "u1", file, o.cloud, o.saveOk) /\ UNCHANGED accountVars
    \/ \E file \in Uploads, body \in {b \in Bodies : b.jobRole = ""} :
          \E o \in OutcomesFor(MulterError(file)) :
             PostUploadReport("u1", "u1", file, body, o.cloud, o.saveOk)
                /\ UNCHANGED accountVars

Register ==
    \/ \E slot \in RegSlots, body \in RegisterBodies, file \in Uploads :
          RegisterStart(slot, body, file) /\ UNCHANGED otherThanAccounts
    \/ \E slot \in RegSlots, collegeOk \in BOOLEAN, o \in Outcomes :
          RegisterFinish(slot, collegeOk, o.cloud, o.saveOk) /\ UNCHANGED otherThanAccounts

AccountsNext ==
    \/ Register
    \/ \E email \in LoginEmails, password \in LoginPasswords, dbOk \in BOOLEAN :
          LoginIndividual(email, password, dbOk) /\ UNCHANGED otherThanAccounts

FilesNext ==
    \/ Register
    \/ OwnUploads /\ UNCHANGED otherThanAccounts

\* ------------------------------ the full report: individualDashboard.tsx
\* A text is a sequence of characters. The letters stand for words: K and S
\* for the section names 'Key Strengths' and 'Skills Analysis', u for a
\* title formatReport does not know, x for a word of a section's body.
Whitespace == {" ", "\n"}
WordChars == {"K", "S", "u", "x"}

\* the character at index i, "" beyond the ends
At(t, i) == IF i \in 1..Len(t) THEN t[i] ELSE ""

RECURSIVE TrimLeft(_)
TrimLeft(t) ==
    IF t # <<>> /\ Head(t) \in Whitespace THEN TrimLeft(Tail(t)) ELSE t

RECURSIVE TrimRight(_)
TrimRight(t) ==
    IF t # <<>> /\ t[Len(t)] \in Whitespace
    THEN TrimRight(SubSeq(t, 1, Len(t) - 1))
    ELSE t

\* String.prototype.trim
Trim(t) == TrimRight(TrimLeft(t))

\* ## at index p
HashesAt(t, p) == At(t, p) = "#" /\ At(t, p + 1) = "#"

\* \s* taken greedily from index i: the index after the run
RECURSIVE SpaceRunEnd(_, _)
SpaceRunEnd(t, i) ==
    IF At(t, i) \in Whitespace THEN SpaceRunEnd(t, i + 1) ELSE i

\* the index of the first \n at or after index i, 0 when there is none
RECURSIVE NextNewline(_, _)
NextNewline(t, i) ==
    IF i > Len(t) THEN 0
    ELSE IF t[i] = "\n" THEN i
    ELSE NextNewline(t, i + 1)

\* ([^\n]+)\n after \s*: \s* gives characters back, from index k down to lo,
\* until a character other than \n is left for the title and a \n follows
\* it; 0 when no split works
RECURSIVE TitleStartFrom(_, _, _)
TitleStartFrom(t, k, lo) ==
    IF k < lo THEN 0
    ELSE IF At(t, k) \notin {"\n", ""} /\ NextNewline(t, k) # 0 THEN k
    ELSE TitleStartFrom(t, k - 1, lo)

\* (?=(##\s*[\w\s]+)|$) at index m
Lookahead(t, m) ==
    \/ m = Len(t) + 1
    \/ HashesAt(t, m) /\ At(t, m + 2) \in (WordChars \cup Whitespace)

\* ([\s\S]*?) from index c: the first index where the lookahead holds
RECURSIVE ContentEnd(_, _)
ContentEnd(t, c) ==
    IF Lookahead(t, c) THEN c ELSE ContentEnd(t, c + 1)

NoMatch == [found |-> FALSE, title |-> <<>>, content |-> <<>>, lastIndex |-> 0]

\* sectionRegex matched at index p
MatchAt(t, p) ==
    IF ~HashesAt(t, p) THEN NoMatch
    ELSE LET k == TitleStartFrom(t, SpaceRunEnd(t, p + 2), p + 2)
             e == NextNewline(t, k)
             m == ContentEnd(t, e + 1)
         IN  IF k = 0 THEN NoMatch
             ELSE [found |-> TRUE,
                   title |-> SubSeq(t, k, e - 1),
                   content |-> SubSeq(t, e + 1, m - 1),
                   lastIndex |-> m]

\* sectionRegex.exec with lastIndex from: the leftmost match at or after it
RECURSIVE Exec(_, _)
Exec(t, from) ==
    IF from > Len(t) THEN NoMatch
    ELSE IF MatchAt(t, from).found THEN MatchAt(t, from)
    ELSE Exec(t, from + 1)

\* sections[k] = v
Put(f, k, v) == [x \in DOMAIN f \cup {k} |-> IF x = k THEN v ELSE f[x]]

\* the while loop of parseAnalysisSections
RECURSIVE ParseFrom(_, _, _)
ParseFrom(t, from, acc) ==
    LET match == Exec(t, from)
    IN  IF ~match.found THEN acc
        ELSE ParseFrom(t, match.lastIndex,
                       Put(acc, Trim(match.title), Trim(match.content)))

ParseAnalysisSections(t) == ParseFrom(t, 1, <<>>)

\* the section names formatReport has a block for
SectionNames == {<<"K">>, <<"S">>}
RawReport == <<"Raw Report">>

\* the titled blocks of formatReport: a block for each section name whose
\* text is not empty, and the raw narrative when nothing was parsed
FormatReport(t) ==
    IF t = <<>> THEN <<>>
    ELSE LET parsed == ParseAnalysisSections(t)
             named == {n \in SectionNames \cap DOMAIN parsed : parsed[n] # <<>>}
             titles == named \cup (IF DOMAIN parsed = {} THEN {RawReport} ELSE {})
         IN  [n \in titles |-> IF n = RawReport THEN t ELSE parsed[n]]

\* the lines a narrative is made of: headings of a known and of an unknown
\* section, a sub-heading, a line of body text, an empty line
LineShapes ==
    {<<"#", "#", " ", "K">>, <<"#", "#", " ", "S">>, <<"#", "#", " ", "u">>,
     <<"#", "#", "#", " ", "u">>, <<"x">>, <<>>}

RECURSIVE Join(_)
Join(ls) ==
    IF ls = <<>> THEN <<>>
    ELSE IF Len(ls) = 1 THEN ls[1]
    ELSE ls[1] \o <<"\n">> \o Join(Tail(ls))

\* every narrative of at most MaxLines lines, ended by a newline or not
Texts ==
    LET lists == UNION {[1..n -> LineShapes] : n \in 0..MaxLines}
    IN  {Join(ls) : ls \in lists} \cup {Join(ls) \o <<"\n">> : ls \in lists}

\* ------------------------------------- dashboard: individualDashboard.tsx
\* AnalysisResult; present is FALSE for result === null
NoResult == [present |-> FALSE, resume_score |-> None, ats_score |-> None]

\* resume_score and ats_score of an analysis: a number of [0,100] or undefined
AnalysisScores == {None, Some(0), Some(85)}

\* the narratives of the analyses of the dashboard: none, and a known
\* section of one line
Narratives == {<<>>, <<"#", "#", " ", "K", "\n", "x">>}

AnalysisData ==
    [present : {TRUE}, resume_score : AnalysisScores, ats_score : AnalysisScores]

\* what the analysis request can end in: a response that is not OK or a
\* thrown error, a body with an error field, a result
AnalysisResponses ==
    {[kind |-> k, data |-> NoResult, analysis |-> <<>>] : k \in {"failed", "errorField"}}
    \cup {[kind |-> "ok", data |-> d, analysis |-> t] : d \in AnalysisData, t \in Narratives}

\* score?.toString() || '0'
FormScore(score) ==
    IF score = None THEN <<"0">> ELSE NumberToString(score[1])

\* the FormData of handleReportUpload; jobRole and jobCategory are the
\* selections of the page
ReportForm(analysisResult) ==
    [analysisResumeScore |-> FormScore(analysisResult.resume_score),
     analysisAtsScore |-> FormScore(analysisResult.ats_score),
     jobRole |-> "Data Scientist",
     jobCategory |-> "Data Science and Analytics"]

\* getScoreValue, in hundredths: score ? score / 100 : 0
GetScoreValue(score) == IF score = None \/ score[1] = 0 THEN 0 ELSE score[1]


\* the profile of the user in localStorage, as the login response gave it
StoredProfile ==
    [id |-> "u1", analysisResumeScore |-> 0, analysisAtsScore |-> 0,
     resumeFilePath |-> Registered("u1").resumeFilePath]

DashIdle ==
    /\ loading = FALSE
    /\ result = NoResult
    /\ profile = StoredProfile
    /\ reportReq = <<>>
    /\ analysisPending = FALSE

\* handleUpload up to its await; the Analyze button is disabled while
\* loading and covered by the profile modal
HandleUpload ==
    /\ ~loading /\ ~analysisPending /\ reportReq = <<>>
    /\ ~showProfileModal
    /\ loading' = TRUE
    /\ analysisPending' = TRUE
    /\ UNCHANGED <<result, profile, reportReq>>
    /\ UNCHANGED backendVars
    /\ UNCHANGED reportVars

\* what the page renders of the full report of a result with narrative t:
\* showReport && formatReport(result)
Rendered(shown, t) ==
    [sections |-> IF shown /\ t # <<>> THEN ParseAnalysisSections(t) ELSE <<>>,
     report |-> IF shown THEN FormatReport(t) ELSE <<>>]

AnalysisResponseAlwaysUploads(resp) ==
    /\ analysisPending
    /\ analysisPending' = FALSE
    /\ result' = resp.data
    /\ analysis' = resp.analysis
    /\ showReport' = (IF resp.kind = "ok" THEN TRUE ELSE showReport)
    /\ sections' = Rendered(resp.kind = "ok", resp.analysis).sections
    /\ report' = Rendered(resp.kind = "ok", resp.analysis).report
    /\ reportReq' = <<ReportForm(resp.data)>>
    /\ loading' = TRUE
    /\ UNCHANGED profile
    /\ UNCHANGED backendVars

\* handleUpload from the analysis response on: a result is kept, its full
\* report is opened and it is handed to handleReportUpload, which posts the
\* report form
AnalysisResponse(resp) ==
    /\ analysisPending
    /\ analysisPending' = FALSE
    /\ IF resp.kind = "ok"
       THEN /\ result' = resp.data
            /\ analysis' = resp.analysis
            /\ showReport' = TRUE
            /\ sections' = Rendered(TRUE, resp.analysis).sections
            /\ report' = Rendered(TRUE, resp.analysis).report
            /\ reportReq' = <<ReportForm(resp.data)>>
            /\ loading' = TRUE
       ELSE /\ result' = NoResult
            /\ analysis' = <<>>
            /\ showReport' = showReport
            /\ sections' = <<>>
            /\ report' = <<>>
            /\ reportReq' = <<>>
            /\ loading' = FALSE
    /\ UNCHANGED profile
    /\ UNCHANGED backendVars

\* the report upload reaches the backend as a request of the logged-in user
\* and its response reaches handleReportUpload; authMiddleware may turn the
\* token down before the handler runs
ReportUploadResponse(authorized, cloud, saveOk) ==
    /\ reportReq # <<>>
    /\ reportReq' = <<>>
    /\ loading' = FALSE
    /\ result' = result
    /\ analysisPending' = analysisPending
    /\ UNCHANGED reportVars
    /\ IF authorized
       THEN /\ PostUploadReport(profile.id, profile.id, SmallPdf, reportReq[1], cloud, saveOk)
            /\ profile' =
                 IF res'.status = 200
                 THEN [profile EXCEPT
                         !.analysisResumeScore = users'[profile.id].analysisResumeScore,
                         !.analysisAtsScore = users'[profile.id].analysisAtsScore]
                 ELSE profile
       ELSE /\ UNCHANGED backendVars
            /\ profile' = profile


\* ------------------- profile modal and job search: individualDashboard.tsx
\* the files handleProfileFileChange is given: PDFs within and over the
\* limit of the backend, and a file of another type
ProfileFiles ==
    {SmallPdf, [mimetype |-> Pdf, size |-> FileSizeLimit + 1],
     [mimetype |-> "image/png", size |-> 1]}

NoProfileReq == [step |-> "idle", file |-> NoUpload, profile |-> StoredProfile]

\* the jobs /recommend-jobs answers with
Recommendations == {<<>>, <<"job">>}

SideIdle ==
    /\ showProfileModal = FALSE
    /\ profileFile = NoUpload
    /\ profileReq = NoProfileReq
    /\ jobLoading = FALSE
    /\ recommendedJobs = <<>>

\* the Upload Resume button of the profile and the Cancel button of the modal
SetShowProfileModal(shown) ==
    /\ showProfileModal # shown
    /\ showProfileModal' = shown
    /\ UNCHANGED <<profileFile, profileReq, jobLoading, recommendedJobs>>
    /\ UNCHANGED <<backendVars, dashVars, reportVars>>

\* handleProfileFileChange: a PDF is kept, any other file is dropped
HandleProfileFileChange(selectedFile) ==
    /\ showProfileModal
    /\ profileFile' = (IF selectedFile.mimetype = Pdf THEN selectedFile ELSE NoUpload)
    /\ UNCHANGED <<showProfileModal, profileReq, jobLoading, recommendedJobs>>
    /\ UNCHANGED <<backendVars, dashVars, reportVars>>

\* handleProfileUpload up to its first await: the button is there for a
\* chosen file; a profile with a resume has it deleted first
HandleProfileUpload ==
    /\ showProfileModal
    /\ profileFile # NoUpload
    /\ profileReq.step = "idle"
    /\ loading' = TRUE
    /\ profileReq' = [step |-> IF profile.resumeFilePath # NoFile
                                THEN "deleting" ELSE "uploading",
                      file |-> profileFile, profile |-> profile]
    /\ UNCHANGED <<showProfileModal, profileFile, jobLoading, recommendedJobs>>
    /\ UNCHANGED <<result, profile, reportReq, analysisPending>>
    /\ UNCHANGED <<backendVars, reportVars>>

\* the catch and the finally of handleProfileUpload
ProfileUploadEnds ==
    /\ loading' = FALSE
    /\ showProfileModal' = FALSE
    /\ profileFile' = NoUpload
    /\ profileReq' = NoProfileReq

\* the answer to DELETE /delete/:id reaches handleProfileUpload
ProfileDeleteResponse(authorized, cloud, saveOk) ==
    /\ profileReq.step = "deleting"
    /\ UNCHANGED <<jobLoading, recommendedJobs>>
    /\ UNCHANGED <<result, profile, reportReq, analysisPending>>
    /\ UNCHANGED reportVars
    /\ IF authorized
       THEN DeleteDelete(profileReq.profile.id, profileReq.profile.id, cloud, saveOk)
       ELSE UNCHANGED backendVars
    /\ IF authorized /\ res'.status = 200
       THEN /\ profileReq' = [profileReq EXCEPT !.step = "uploading"]
            /\ UNCHANGED <<loading, showProfileModal, profileFile>>
       ELSE ProfileUploadEnds

ProfileUploadResponseKeepsLoading(authorized, cloud, saveOk) ==
    /\ profileReq.step = "uploading"
    /\ UNCHANGED <<jobLoading, recommendedJobs>>
    /\ UNCHANGED <<result, reportReq, analysisPending>>
    /\ UNCHANGED reportVars
    /\ IF authorized
       THEN PostUpload(profileReq.profile.id, profileReq.profile.id, profileReq.file,
                       cloud, saveOk)
       ELSE UNCHANGED backendVars
    /\ showProfileModal' = FALSE
    /\ profileFile' = NoUpload
    /\ profileReq' = NoProfileReq
    /\ IF authorized /\ res'.status = 200
       THEN /\ profile' = [profileReq.profile EXCEPT
                             !.resumeFilePath = users'[profileReq.profile.id].resumeFilePath]
            /\ loading' = FALSE
       ELSE /\ profile' = profile
            /\ loading' = loading

\* the answer to POST /upload/:id reaches handleProfileUpload
ProfileUploadResponse(authorized, cloud, saveOk) ==
    /\ profileReq.step = "uploading"
    /\ UNCHANGED <<jobLoading, recommendedJobs>>
    /\ UNCHANGED <<result, reportReq, analysisPending>>
    /\ UNCHANGED reportVars
    /\ IF authorized
       THEN PostUpload(profileReq.profile.id, profileReq.profile.id, profileReq.file,
                       cloud, saveOk)
       ELSE UNCHANGED backendVars
    /\ ProfileUploadEnds
    /\ IF authorized /\ res'.status = 200
       THEN profile' = [profileReq.profile EXCEPT
                          !.resumeFilePath = users'[profileReq.profile.id].resumeFilePath]
       ELSE profile' = profile

\* handleJobSearch up to its await; the Search button is disabled while
\* jobLoading and covered by the profile modal, and a query of blanks is
\* answered with an alert
HandleJobSearch(blank) ==
    /\ ~jobLoading
    /\ ~showProfileModal
    /\ jobLoading' = ~blank
    /\ UNCHANGED <<showProfileModal, profileFile, profileReq, recommendedJobs>>
    /\ UNCHANGED <<backendVars, dashVars, reportVars>>

\* handleJobSearch from the response on
JobSearchResponse(ok, data) ==
    /\ jobLoading
    /\ jobLoading' = FALSE
    /\ recommendedJobs' = (IF ok THEN data ELSE <<>>)
    /\ UNCHANGED <<showProfileModal, profileFile, profileReq>>
    /\ UNCHANGED <<backendVars, dashVars, reportVars>>


ReportIdle ==
    /\ analysis = <<>>
    /\ showReport = FALSE
    /\ sections = <<>>
    /\ report = <<>>

\* the Show Full Report button: setShowReport(!showReport), and the render
\* that follows it
ToggleReport ==
    /\ result.present
    /\ showReport' = ~showReport
    /\ sections' = Rendered(showReport', analysis).sections
    /\ report' = Rendered(showReport', analysis).report
    /\ UNCHANGED analysis
    /\ UNCHANGED <<backendVars, dashVars>>

vars == <<showMatches, matches, sortOrder, topN, fetchingMatchesForJob, pending, out,
          users, storage, clock, res, loading, result, profile, reportReq,
          analysis, showReport, sections, report, studentsRes, regs, authRes,
          jobs, jobsLoading, error, showNewJobModal, newJob, fetchJobsStep, crud, server,
          analysisPending, showProfileModal, profileFile, profileReq, jobLoading,
          recommendedJobs, requested>>

\* the requests that pass authMiddleware: a registered user asking for any
\* registered user's path, and a user whose record is gone asking for its own
Calls ==
    {[caller |-> c, id |-> i] : c \in UserIds, i \in UserIds}
    \cup {[caller |-> Ghost, id |-> Ghost]}

BackendNext ==
    \/ \E c \in Calls, file \in Uploads :
          \E o \in OutcomesFor(MulterError(file)
                                \/ Refusal(c.caller, c.id, TRUE, file # NoUpload) # 0) :
            PostUpload(c.caller, c.id, file, o.cloud, o.saveOk) /\ UNCHANGED otherThanBackend
    \/ \E c \in Calls :
          \E o \in OutcomesFor(Refusal(c.caller, c.id, FALSE, FALSE) # 0) :
            DeleteDelete(c.caller, c.id, o.cloud, o.saveOk) /\ UNCHANGED otherThanBackend
    \/ \E c \in Calls, req \in ReportRequests :
          \E o \in OutcomesFor(MulterError(req.file)
                                \/ Refusal(c.caller, c.id, TRUE, req.file # NoUpload) # 0) :
            PostUploadReport(c.caller, c.id, req.file, req.body, o.cloud, o.saveOk)
                /\ UNCHANGED otherThanBackend

DashNext ==
    \/ HandleUpload /\ UNCHANGED otherThanDash
    \/ \E resp \in AnalysisResponses : AnalysisResponse(resp) /\ UNCHANGED otherThanDash
    \/ \E authorized \in BOOLEAN, o \in Outcomes :
          ReportUploadResponse(authorized, o.cloud, o.saveOk) /\ UNCHANGED otherThanDash
    \/ ToggleReport /\ UNCHANGED otherThanDash

\* the full report alone
ReportNext ==
    ToggleReport /\ UNCHANGED otherThanDash

\* the Jobs page, with the backend and the dashboard at rest
Init ==
    /\ JobsInit /\ BackendInit /\ DashIdle /\ ReportIdle /\ DirectoryIdle /\ AccountsIdle
    /\ CrudInit /\ SideIdle /\ NothingRequested
Next == JobsNext
Spec == Init /\ [][Next]_vars

\* the backend under the requests of any authenticated caller
SpecIndividual == Init /\ [][BackendNext]_vars

\* the dashboard of the logged-in individual, and the backend behind it
SpecDashboard == Init /\ [][DashNext]_vars

\* ---------------------------------------------- the requests of both pages
\* One page is open at a time: an operation of the Jobs page starts while
\* the dashboard is as it was made, and one of the dashboard while the Jobs
\* page is.
JobsPageUnopened == JobsInit /\ CrudInit
DashboardUnopened == DashIdle /\ ReportIdle /\ SideIdle

\* the answers that decide how an operation ends: one of each kind
EndingResponses == {r \in Responses : Len(r.data) <= 1}
EndingAnalyses ==
    {r \in AnalysisResponses :
        /\ r.kind # "errorField"
        /\ r.kind = "ok" => /\ r.analysis = <<>>
                            /\ r.data.resume_score = Some(85)
                            /\ r.data.ats_score = Some(85)}
EndingOutcomes == {o \in Outcomes : o.saveOk /\ o.cloud # "destroyFails"}
EndingRecommendations == Recommendations \ {<<>>}

FetchJobsStarts ==
    \E token \in BOOLEAN :
       DashboardUnopened /\ FetchJobsStart(token) /\ UNCHANGED otherThanCrud
FetchJobsResolves ==
    \E ok \in BOOLEAN : FetchJobsResolve(ok) /\ UNCHANGED otherThanCrud
FetchMatchesStarts ==
    \E j \in JobIds, token \in BOOLEAN :
       /\ DashboardUnopened /\ fetchJobsStep = "loaded"
       /\ FetchMatchesStart(j, token) /\ UNCHANGED otherThanJobs
FetchMatchesResolves ==
    \E r \in Requests, resp \in EndingResponses :
       FetchMatchesResolve(r, resp) /\ UNCHANGED otherThanJobs
HandleUploadStarts ==
    JobsPageUnopened /\ HandleUpload /\ UNCHANGED otherThanDash
AnalysisResponds ==
    \E resp \in EndingAnalyses : AnalysisResponse(resp) /\ UNCHANGED otherThanDash
ReportUploadResponds ==
    \E authorized \in BOOLEAN, o \in EndingOutcomes :
       ReportUploadResponse(authorized, o.cloud, o.saveOk) /\ UNCHANGED otherThanDash
ProfileModal ==
    /\ JobsPageUnopened
    /\ \/ \E shown \in BOOLEAN : SetShowProfileModal(shown)
       \/ \E f \in ProfileFiles : HandleProfileFileChange(f)
    /\ UNCHANGED otherThanSide
HandleProfileUploadStarts ==
    JobsPageUnopened /\ HandleProfileUpload /\ UNCHANGED otherThanSide
ProfileDeleteResponds ==
    \E authorized \in BOOLEAN, o \in EndingOutcomes :
       ProfileDeleteResponse(authorized, o.cloud, o.saveOk) /\ UNCHANGED otherThanSide
ProfileUploadResponds ==
    \E authorized \in BOOLEAN, o \in EndingOutcomes :
       ProfileUploadResponse(authorized, o.cloud, o.saveOk) /\ UNCHANGED otherThanSide
HandleJobSearchStarts ==
    \E blank \in BOOLEAN :
       JobsPageUnopened /\ HandleJobSearch(blank) /\ UNCHANGED otherThanSide
JobSearchResponds ==
    \E ok \in BOOLEAN, data \in EndingRecommendations :
       JobSearchResponse(ok, data) /\ UNCHANGED otherThanSide

RequestsNext ==
    \/ FetchJobsStarts
    \/ FetchJobsResolves
    \/ FetchMatchesStarts
    \/ FetchMatchesResolves
    \/ HandleUploadStarts
    \/ AnalysisResponds
    \/ ReportUploadResponds
    \/ ProfileModal
    \/ HandleProfileUploadStarts
    \/ ProfileDeleteResponds
    \/ ProfileUploadResponds
    \/ HandleJobSearchStarts
    \/ JobSearchResponds

\* every request is answered or fails: fetch settles its promise
EveryRequestSettles ==
    /\ WF_vars(FetchJobsResolves)
    /\ WF_vars(FetchMatchesResolves)
    /\ WF_vars(AnalysisResponds)
    /\ WF_vars(ReportUploadResponds)
    /\ WF_vars(ProfileDeleteResponds)
    /\ WF_vars(ProfileUploadResponds)
    /\ WF_vars(JobSearchResponds)

\* the operations that show a loading flag, under requests that settle
SpecRequests == Init /\ [][RequestsNext]_vars /\ EveryRequestSettles

\* registration and login
SpecAccounts == Init /\ [][AccountsNext]_vars

\* the three routes that take a file: registration, and the resume and the
\* report of one registered individual
SpecFiles == Init /\ [][FilesNext]_vars

\* the jobs list of the Jobs page
SpecJobsList == Init /\ [][CrudNext]_vars

\* View Matches clicked for several jobs before the responses arrive
SpecOverlap == Init /\ [][OverlapNext]_vars

\* the student directory of the institution
SpecStudents == Init /\ [][DirectoryNext]_vars

\* the full report of a result on screen, closed by its button, for every
\* narrative the analysis can have sent
ReportInit ==
    /\ JobsInit /\ BackendInit
    /\ loading = FALSE
    /\ result = [present |-> TRUE, resume_score |-> Some(85), ats_score |-> Some(85)]
    /\ profile = StoredProfile
    /\ reportReq = <<>>
    /\ analysis \in Texts
    /\ showReport = FALSE
    /\ sections = Rendered(FALSE, analysis).sections
    /\ report = Rendered(FALSE, analysis).report
    /\ DirectoryIdle /\ AccountsIdle /\ CrudInit /\ SideIdle
    /\ analysisPending = FALSE
    /\ NothingRequested

SpecReport == ReportInit /\ [][ReportNext]_vars

\* ------------------------------------------------------- Jobs page: claims

\* every order the server can send the matches of list m in
Arrivals(m) ==
    {a \in [DOMAIN m -> Range(m)] : Range(a) = Range(m)}

IsSorted(order, m) ==
    \A i \in 1..(Len(m) - 1) : Compare(order, m[i], m[i + 1]) <= 0

Other(order) == IF order = "desc" THEN "asc" ELSE "desc"

HasTie(m) ==
    \E i, j \in DOMAIN m : i # j /\ m[i].match_score = m[j].match_score

\* C1: the list shown is a total order of the matches: whatever order the
\* server sent the same set of matches in, the same sequence (and so the same
\* top N) is shown
C1_ArrivalOrderIndependent ==
    \A o \in Orders :
        IsSorted(o, matches) =>
            \A a \in Arrivals(matches) : SortByScore(o, a) = matches

\* C2: the match list is sorted by match_score in the direction sortOrder
\* gives: non-increasing for desc, non-decreasing for asc
C2_SortedBySortOrder == IsSorted(sortOrder, matches)

\* C3: changing top N and exporting the CSV leave the match list as it was,
\* and the table shows the first topN entries of that unchanged list, so
\* what a smaller top N hid is shown again by a larger one
C3_TopNLeavesPool ==
    [][((\E v \in TopNInputs : HandleTopNChange(v)) \/ DownloadCSV)
         => /\ matches' = matches
            /\ Len(TableRows') = Min(topN', Len(matches))
            /\ \A i \in DOMAIN TableRows' :
                   TableRows'[i].student_id = matches[i].student_id]_vars

\* a CSV of the top 1 was exported while the list holds two matches
C3_Witness ==
    /\ topN = 1
    /\ Len(matches) = 2
    /\ Len(out.csv) = 1

\* C4: sorting a list in the order it is already sorted in changes nothing,
\* and sorting it the other way and back gives the sequence back, ties in
\* their places
C4_RankingStable ==
    [][\A o \in Orders :
         HandleSortChange(o) =>
            /\ IsSorted(o, matches) => matches' = matches
            /\ IsSorted(Other(o), matches) =>
                   SortByScore(Other(o), matches') = matches]_vars

\* the list was sorted away from the initial order and holds a tie
C4_Witness ==
    /\ sortOrder = "asc"
    /\ PanelOpen
    /\ HasTie(matches)
    /\ matches[1].student_id > matches[2].student_id

\* C6: a fetchMatches that fails, which is one that ends in an alert (no
\* token, a response that is not OK, a body whose data is no array, a
\* rejected fetch), leaves matches,
\* showMatches, sortOrder and topN as they were and resets
\* fetchingMatchesForJob to null
C6_FailureLeavesMatches ==
    [][out'.alert # ""
         => /\ UNCHANGED <<matches, showMatches, sortOrder, topN>>
            /\ fetchingMatchesForJob' = Null]_vars

\* a request failed while a match list was on show
C6_Witness ==
    /\ out.alert = "Failed to fetch matches"
    /\ matches # <<>>
    /\ showMatches # Null

C8_StoredScoresInRange ==
    \A id \in DOMAIN users :
        /\ users[id].analysisResumeScore \in 0..100
        /\ users[id].analysisAtsScore \in 0..100

\* C9: a request of uploadPDF, deletePDF or uploadAnalysisReport whose
\* authenticated caller is not the user of the path changes neither a record
\* nor a stored file, and the handler it reaches answers 403
C9_OnlyOwnerChanges ==
    [][(res'.op # "none" /\ res'.caller # res'.id)
         => /\ UNCHANGED <<users, storage>>
            /\ res'.op # "multer" => res'.status = 403]_vars

\* u2 has asked for u1's path after u1 stored a report, and was refused
C9_Witness ==
    /\ res.status = 403
    /\ res.caller = "u2"
    /\ res.id = "u1"
    /\ users["u1"].analysisFilePath # NoFile

\* C12: a successful uploadAnalysisReport leaves the new report, the one
\* analysisFilePath then refers to, in storage and the report
\* analysisFilePath referred to before no longer in storage
C12_PreviousReportDeleted ==
    [][(res'.op = "uploadAnalysisReport" /\ res'.status = 200 /\ clock' # clock)
         => /\ users'[res'.id].analysisFilePath \in storage'
            /\ users[res'.id].analysisFilePath # NoFile
                 => users[res'.id].analysisFilePath \notin storage']_vars

\* the text t holds the text s, letters compared by their lower case
ContainsIgnoringCase(t, s) ==
    \E i \in 0..(Len(t) - Len(s)) :
        \A k \in 1..Len(s) : LowerCase(s[k]) = LowerCase(t[i + k])

\* C13: GET /students answers with exactly the students of the given year
\* (unless absent or 'all'), of the given department (unless absent or
\* 'all') and whose name holds the search text, case ignored (when given)
C13_StudentsFilter ==
    studentsRes.status = 200 =>
        studentsRes.data =
            {id \in DOMAIN users :
                /\ studentsRes.query.year \notin {Undefined, "all"}
                      => NumberToString(users[id].year) = <<studentsRes.query.year>>
                /\ studentsRes.query.department \notin {Undefined, "all"}
                      => users[id].department = studentsRes.query.department
                /\ studentsRes.query.search # <<>>
                      => ContainsIgnoringCase(users[id].name, studentsRes.query.search)}

\* ----------------------------------------------------- dashboard: claims

\* the form of the report upload in flight says 0 only for a score the
\* analysis gave as 0
C5_SentIsComputed ==
    reportReq # <<>> =>
        /\ reportReq[1].analysisResumeScore = <<"0">> => result.resume_score = Some(0)
        /\ reportReq[1].analysisAtsScore = <<"0">> => result.ats_score = Some(0)

\* once the report of the analysis on screen is stored, the record holds 0
\* only for a score the analysis gave as 0
C5_StoredIsComputed ==
    (~loading /\ result.present /\ res.status = 200) =>
        /\ users[profile.id].analysisResumeScore = 0 => result.resume_score = Some(0)
        /\ users[profile.id].analysisAtsScore = 0 => result.ats_score = Some(0)

\* the gauges show 0 only for a score the analysis gave as 0
C5_ShownIsComputed ==
    result.present =>
        /\ GetScoreValue(result.resume_score) = 0 => result.resume_score = Some(0)
        /\ GetScoreValue(result.ats_score) = 0 => result.ats_score = Some(0)

\* C5: a resume_score or ats_score the analysis did not produce is never
\* turned into 0: a 0 that is sent with the report, stored on the record or
\* shown on the dashboard is a 0 the analysis computed
C5_NoSilentZero ==
    /\ C5_SentIsComputed
    /\ C5_StoredIsComputed
    /\ C5_ShownIsComputed

\* C11: for the logged-in user, the end of an analysis request that
\* succeeded sets the result and issues one report upload, the form of that
\* result; the end of one that failed sets the result to null and issues
\* none; and a report upload is issued at no other time
C11_OneUploadPerAnalysis ==
    [][/\ (loading /\ reportReq = <<>>
            /\ <<loading, result, reportReq>>' # <<loading, result, reportReq>>)
          => IF result'.present
             THEN reportReq' = <<ReportForm(result')>>
             ELSE result' = NoResult /\ reportReq' = <<>>
       /\ (reportReq' # <<>> /\ reportReq' # reportReq)
          => (loading /\ reportReq = <<>> /\ result'.present)]_vars

\* the upload of the report of a result is awaited, after an earlier
\* analysis of the same session had failed or its upload had been answered
C11_Witness ==
    /\ reportReq # <<>>
    /\ result.present
    /\ res.op = "uploadAnalysisReport"

\* --------------------------------------------------- full report: claims

\* the lines of a text
RECURSIVE SplitLines(_)
SplitLines(t) ==
    LET e == NextNewline(t, 1)
    IN  IF e = 0 THEN <<t>>
        ELSE <<SubSeq(t, 1, e - 1)>> \o SplitLines(SubSeq(t, e + 1, Len(t)))

\* the titles of the headings of a narrative: the lines ## title
Headings(t) ==
    LET ls == SplitLines(t)
    IN  {Trim(SubSeq(ls[i], 3, Len(ls[i]))) :
            i \in {j \in DOMAIN ls : /\ HashesAt(ls[j], 1)
                                      /\ At(ls[j], 3) # "#"
                                      /\ Trim(SubSeq(ls[j], 3, Len(ls[j]))) # <<>>}}

Uncategorized == <<"uncategorized">>

\* C10: no heading of the narrative is lost in the full report: unless the
\* report shows the whole narrative raw, a heading with a known section name
\* is shown as a block of its own, and with a heading of any other name the
\* sections hold an uncategorized entry
C10_NoHeadingLost ==
    (showReport /\ RawReport \notin DOMAIN report) =>
        \A h \in Headings(analysis) :
            IF h \in SectionNames
            THEN h \in DOMAIN report
            ELSE Uncategorized \in DOMAIN sections

\* ------------------------------------------- files and accounts: claims

\* C14: every file that reaches storage through /register, /upload/:id or
\* /upload-report/:id is an application/pdf of at most 5 MB, and a request
\* that multer turns down for its file stores nothing and changes no record
C14_OnlyPdfStored ==
    [][/\ \A f \in storage' \ storage :
             f.mimetype = Pdf /\ f.size <= FileSizeLimit
       /\ ((res' # res /\ res'.op = "multer")
             \/ (authRes' # authRes /\ authRes'.op = "multer"))
            => UNCHANGED <<users, storage>>]_vars

\* a registration and an upload have stored PDFs of exactly 5 MB, and the
\* last request of either kind was turned down for its file
C14_Witness ==
    /\ res.op = "multer"
    /\ authRes.op = "multer"
    /\ "n1" \in DOMAIN users
    /\ \E f \in storage : f.name = "n1" /\ f.size = FileSizeLimit
    /\ \E f \in storage : f.name = "u1" /\ f.size = FileSizeLimit

\* C15: whatever way requests to /register interleave, two of them with
\* the same email at the same time included, no two records share an email,
\* a record is only made by the one request that is answered 201 for an
\* email no record had, and the other requests are answered with an error
C15_UniqueEmail ==
    [][/\ \A i, j \in DOMAIN users' :
             i # j => users'[i].email # users'[j].email
       /\ users' # users
            => /\ authRes'.op = "register" /\ authRes'.status = 201
               /\ FindByEmail(authRes'.email) = {}
       /\ (\E s \in RegSlots : regs[s] # NoReg /\ regs'[s] = NoReg) /\ users' = users
            => authRes'.op = "register" /\ authRes'.status >= 400]_vars

\* two requests with the same free email were past findOne together: the
\* first was saved, the second uploaded its resume and was turned down by
\* the save
C15_Witness ==
    /\ "n1" \in DOMAIN users
    /\ "n2" \notin DOMAIN users
    /\ authRes.op = "register" /\ authRes.status = 500
    /\ \E f \in storage : f.name = "n2"

\* C16 as stated: a login is answered with a token when the email is that
\* of a record whose hash the password matches, and with 400 and no token
\* otherwise
C16_OtherwiseAlways400 ==
    [][\A email \in LoginEmails, password \in LoginPasswords, dbOk \in BOOLEAN :
          LoginIndividual(email, password, dbOk)
             => \/ /\ authRes'.token # NoToken
                   /\ \E id \in DOMAIN users :
                         /\ users[id].email = email
                         /\ BcryptCompare(password, users[id].password)
                \/ authRes'.token = NoToken /\ authRes'.status = 400]_vars

\* C16: a login is answered with a token only when the email is that of a
\* record whose hash the password matches, the token being for that record;
\* every other login is answered without a token, with 400, or with 500
\* when the lookup throws; no response of /register or /login holds the
\* password field of the record
C16_TokenOnlyForCredentials ==
    [][/\ \A email \in LoginEmails, password \in LoginPasswords, dbOk \in BOOLEAN :
             LoginIndividual(email, password, dbOk)
                => \/ /\ authRes'.token # NoToken
                      /\ authRes'.status = 200
                      /\ dbOk
                      /\ \E id \in DOMAIN users :
                            /\ users[id].email = email
                            /\ BcryptCompare(password, users[id].password)
                            /\ authRes'.token = [id |-> id]
                   \/ /\ authRes'.token = NoToken
                      /\ authRes'.status = IF dbOk THEN 400 ELSE 500
                      /\ authRes'.fields = {}
                      /\ \/ ~dbOk
                         \/ \A id \in DOMAIN users :
                               users[id].email = email
                                  => ~BcryptCompare(password, users[id].password)
       /\ "password" \notin authRes'.fields]_vars

\* a record was registered and a login with its email and password was
\* given a token for it
C16_Witness ==
    /\ authRes.op = "login" /\ authRes.status = 200
    /\ authRes.token = [id |-> "n1"]
    /\ authRes.email = "c@x"

\* C19: after any sequence of uploadPDF and deletePDF calls, those whose
\* upload or save fails included, the resumeFilePath of every record is
\* empty or refers to a file that is in storage
C19_ResumePathExists ==
    \A id \in DOMAIN users :
        users[id].resumeFilePath = NoFile \/ users[id].resumeFilePath \in storage

\* ------------------------------------------------------ jobs list: claims

\* C18: handleSubmit sends a create request only when a year and a
\* department are selected, and otherwise leaves jobs, the modal and the
\* form as they are; a successful create appends the new job to jobs,
\* closes the modal, empties the form and clears the error; a failed create
\* leaves jobs, the modal and the form as they are
C18_CreateJob ==
    [][/\ \A token \in BOOLEAN :
             HandleSubmit(token)
                => /\ crud' # crud
                        => newJob.target_years # {} /\ newJob.target_departments # {}
                   /\ UNCHANGED <<jobs, showNewJobModal, newJob>>
       /\ \A i \in DOMAIN crud :
             /\ CreateResponse(i, TRUE)
                  => /\ jobs' = Append(jobs, server'.jobs[Len(server'.jobs)])
                     /\ ~showNewJobModal'
                     /\ newJob' = EmptyJob
                     /\ error' = Null
             /\ CreateResponse(i, FALSE)
                  => UNCHANGED <<jobs, showNewJobModal, newJob>>]_vars

\* C20: the jobs list follows the server under every interleaving of
\* create and delete requests: no job enters the list that the server does
\* not hold (a deleted job never reappears), and no job the server has
\* created leaves the list while the server holds it (a created job is
\* never lost)
C20_NeverReappearsNeverLost ==
    [][/\ \A j \in Range(jobs') \ Range(jobs) : j \in Range(server'.jobs)
       /\ \A j \in (Range(jobs) \cap Range(CreatedIds)) \ Range(jobs') :
             j \notin Range(server'.jobs)]_vars

\* ------------------------------------------------------- requests: claims

C21_LatestRequestShown ==
    (requested.last # Null /\ ~requested.failed /\ InFlight = 0)
        => /\ showMatches = requested.last
           /\ matches = SortByScore(sortOrder, ServerMatches[requested.last])

====
